---- MODULE Spec2Model ----
(***************************************************************************)
(* Personal Expense Tracker (src/main.py): the SQLite ledger, the          *)
(* add / fetch / search operations, the analytics and the menu loop.       *)
(*                                                                         *)
(* A text (Python str, SQLite TEXT) is a sequence of one-character         *)
(* strings, so that strip(), lower(), strptime() and SQLite's byte-wise    *)
(* comparison are computed character by character.  A Python float is      *)
(* [nan, v] with v its exact value in hundredths; rounding, exponents and  *)
(* infinities are outside the modelled input alphabet.                     *)
(***************************************************************************)
EXTENDS Integers, Sequences, FiniteSets, TLC

VARIABLES rows, seq, tableExists, loop, last

vars == <<rows, seq, tableExists, loop, last>>

(* ---------------------------------------------------------------------- *)
(* Texts                                                                  *)
(* ---------------------------------------------------------------------- *)

\* Python None / SQL NULL where a text is expected (not a text itself).
None == <<"None">>

Digits == {"0", "1", "2", "3", "4", "5", "6", "7", "8", "9"}

DigitVal(c) ==
    CASE c = "0" -> 0 [] c = "1" -> 1 [] c = "2" -> 2 [] c = "3" -> 3
      [] c = "4" -> 4 [] c = "5" -> 5 [] c = "6" -> 6 [] c = "7" -> 7
      [] c = "8" -> 8 [] c = "9" -> 9

\* Code point of a character of the modelled alphabet (ASCII).
Code(c) ==
    CASE c = " " -> 32 [] c = "+" -> 43 [] c = "-" -> 45 [] c = "." -> 46 [] c = "/" -> 47
      [] c \in Digits -> 48 + DigitVal(c)
      [] c = "A" -> 65 [] c = "D" -> 68 [] c = "E" -> 69 [] c = "F" -> 70
      [] c = "I" -> 73 [] c = "N" -> 78 [] c = "O" -> 79 [] c = "Q" -> 81
      [] c = "T" -> 84 [] c = "U" -> 85 [] c = "X" -> 88
      [] c = "a" -> 97 [] c = "d" -> 100 [] c = "e" -> 101 [] c = "f" -> 102
      [] c = "i" -> 105 [] c = "n" -> 110 [] c = "o" -> 111 [] c = "q" -> 113
      [] c = "t" -> 116 [] c = "u" -> 117 [] c = "x" -> 120

LowerChar(c) ==
    CASE c = "A" -> "a" [] c = "D" -> "d" [] c = "E" -> "e" [] c = "F" -> "f"
      [] c = "I" -> "i" [] c = "N" -> "n" [] c = "O" -> "o" [] c = "Q" -> "q"
      [] c = "T" -> "t" [] c = "U" -> "u" [] c = "X" -> "x"
      [] OTHER -> c

\* str.lower() and SQLite lower(): the same on the ASCII alphabet.
Lower(t) == [i \in 1..Len(t) |-> LowerChar(t[i])]

\* str.strip(): drop leading and trailing whitespace.
Strip(t) ==
    LET nonblank == {i \in 1..Len(t) : t[i] # " "}
    IN  IF nonblank = {} THEN <<>>
        ELSE LET lo == CHOOSE i \in nonblank : \A j \in nonblank : i <= j
                 hi == CHOOSE i \in nonblank : \A j \in nonblank : j <= i
             IN  SubSeq(t, lo, hi)

\* SQLite BINARY collation on TEXT: memcmp, then the shorter text first.
TextLess(a, b) ==
    LET n    == IF Len(a) < Len(b) THEN Len(a) ELSE Len(b)
        diff == {k \in 1..n : a[k] # b[k]}
    IN  IF diff = {} THEN Len(a) < Len(b)
        ELSE LET k == CHOOSE i \in diff : \A j \in diff : i <= j
             IN  Code(a[k]) < Code(b[k])

TextLeq(a, b) == a = b \/ TextLess(a, b)

AllDigits(t) == \A i \in 1..Len(t) : t[i] \in Digits

RECURSIVE IntVal(_)
IntVal(t) ==
    IF t = <<>> THEN 0
    ELSE 10 * IntVal(SubSeq(t, 1, Len(t) - 1)) + DigitVal(t[Len(t)])

(* ---------------------------------------------------------------------- *)
(* datetime.strptime(date_str, "%Y-%m-%d")                                *)
(* ---------------------------------------------------------------------- *)

\* %m : 1[0-2] | 0[1-9] | [1-9]
MonthTok(t) ==
    \/ Len(t) = 2 /\ t[1] = "1" /\ t[2] \in {"0", "1", "2"}
    \/ Len(t) = 2 /\ t[1] = "0" /\ t[2] \in Digits \ {"0"}
    \/ Len(t) = 1 /\ t[1] \in Digits \ {"0"}

\* %d : 3[0-1] | [1-2]\d | 0[1-9] | [1-9] | " "[1-9]
DayTok(t) ==
    \/ Len(t) = 2 /\ t[1] = "3" /\ t[2] \in {"0", "1"}
    \/ Len(t) = 2 /\ t[1] \in {"1", "2"} /\ t[2] \in Digits
    \/ Len(t) = 2 /\ t[1] = "0" /\ t[2] \in Digits \ {"0"}
    \/ Len(t) = 1 /\ t[1] \in Digits \ {"0"}
    \/ Len(t) = 2 /\ t[1] = " " /\ t[2] \in Digits \ {"0"}

IsLeap(y) == (y % 4 = 0) /\ ((y % 100 # 0) \/ (y % 400 = 0))

DaysInMonth(y, m) ==
    IF m = 2 THEN (IF IsLeap(y) THEN 29 ELSE 28)
    ELSE IF m \in {4, 6, 9, 11} THEN 30 ELSE 31

\* The split of the text that the format's regular expression finds:
\* %Y is exactly four digits, the month and day tokens hold no "-", and the
\* whole text must be consumed.  mlen is the length of the month token.
MonthLens(t) ==
    {ml \in {1, 2} :
        /\ Len(t) >= 7 + ml
        /\ Len(t) <= 8 + ml
        /\ AllDigits(SubSeq(t, 1, 4))
        /\ t[5] = "-"
        /\ MonthTok(SubSeq(t, 6, 5 + ml))
        /\ t[6 + ml] = "-"
        /\ DayTok(SubSeq(t, 7 + ml, Len(t)))}

\* Value of a day token (a leading blank counts as nothing).
DayVal(t) == IF t[1] = " " THEN DigitVal(t[2]) ELSE IntVal(t)

\* <<year, month, day>> read from a text the regular expression matches.
DateFields(t) ==
    LET ml == CHOOSE x \in MonthLens(t) : TRUE
    IN  <<IntVal(SubSeq(t, 1, 4)),
          IntVal(SubSeq(t, 6, 5 + ml)),
          DayVal(SubSeq(t, 7 + ml, Len(t)))>>

\* strptime returns (does not raise ValueError).
strptime_ok(t) ==
    /\ MonthLens(t) # {}
    /\ LET f == DateFields(t)
       IN  /\ f[1] >= 1
           /\ f[3] <= DaysInMonth(f[1], f[2])

(* ---------------------------------------------------------------------- *)
(* float(x)                                                               *)
(* ---------------------------------------------------------------------- *)

NaN == [nan |-> TRUE, v |-> 0]
Num(n) == [nan |-> FALSE, v |-> n]

\* An argument that is either a str or already a float.
Str(t) == [kind |-> "str", s |-> t, f |-> NaN]
Flt(x) == [kind |-> "float", s |-> <<>>, f |-> x]

\* Unsigned decimal literal: digits [. digits], at least one digit, at most
\* two fraction digits within the modelled inputs.
DecimalTok(t) ==
    LET dots == {i \in 1..Len(t) : t[i] = "."}
    IN  /\ Len(t) >= 1
        /\ Cardinality(dots) <= 1
        /\ \A i \in 1..Len(t) : t[i] \in Digits \cup {"."}
        /\ \E i \in 1..Len(t) : t[i] \in Digits

DecimalVal(t) ==
    LET dots == {i \in 1..Len(t) : t[i] = "."}
        dot  == IF dots = {} THEN Len(t) + 1 ELSE CHOOSE i \in dots : TRUE
        ip   == SubSeq(t, 1, dot - 1)
        fp   == SubSeq(t, dot + 1, Len(t))
        frac == IF Len(fp) = 0 THEN 0
                ELSE IF Len(fp) = 1 THEN 10 * IntVal(fp)
                ELSE IntVal(SubSeq(fp, 1, 2))
    IN  100 * IntVal(ip) + frac

\* float(str): [ok, f]; ok = FALSE is ValueError.
ParseFloat(t) ==
    LET s    == Strip(t)
        sgn  == Len(s) >= 1 /\ s[1] \in {"-", "+"}
        neg  == sgn /\ s[1] = "-"
        body == IF sgn THEN SubSeq(s, 2, Len(s)) ELSE s
    IN  IF Lower(body) = <<"n", "a", "n">> THEN [ok |-> TRUE, f |-> NaN]
        ELSE IF DecimalTok(body)
             THEN [ok |-> TRUE,
                   f |-> Num(IF neg THEN 0 - DecimalVal(body) ELSE DecimalVal(body))]
             ELSE [ok |-> FALSE, f |-> NaN]

\* float(x) for x a str or a float.
PyFloat(x) == IF x.kind = "float" THEN [ok |-> TRUE, f |-> x.f] ELSE ParseFloat(x.s)

(* ---------------------------------------------------------------------- *)
(* Database helpers and CRUD                                              *)
(* ---------------------------------------------------------------------- *)

\* Python truthiness of an optional text: None and "" are false.
Truthy(t) == t # None /\ t # <<>>

\* A row of table expenses.  amount is REAL NOT NULL: the value in hundredths.
Row(id, date, category, amount, notes) ==
    [id |-> id, date |-> date, category |-> category, amount |-> amount, notes |-> notes]

\* InsertRow as it would be if the write replaced the table instead of
\* appending to it.
InsertRowReplacing(rs, sq, date, category, amount, notes) ==
    <<Row(sq + 1, date, category, amount, notes)>>

\* cur.execute(INSERT ...); conn.commit(): the table gains one row and
\* AUTOINCREMENT hands out the id after the largest one ever used.
InsertRow(rs, sq, date, category, amount, notes) ==
    Append(rs, Row(sq + 1, date, category, amount, notes))

\* init_db(): CREATE TABLE IF NOT EXISTS.  dbOk = FALSE is a backing-medium
\* failure of the statement (locked or corrupt file, full disk).
\* leaked counts the connections the operation opened and did not close.
init_db(tbl, dbOk) ==
    IF dbOk
    THEN [raised |-> "", table |-> TRUE, leaked |-> 0]
    ELSE [raised |-> "OperationalError", table |-> tbl, leaked |-> 1]

\* add_expense as it would be if the date were validated only after the
\* INSERT was committed.
add_expense_late_date_check(rs, sq, tbl, date_str, category, amount, notes, dbOk) ==
    LET amt == PyFloat(amount)
        cat == Strip(category)
        nts == IF Truthy(notes) THEN Strip(notes) ELSE None
        same(ex, lk, tried) ==
            [raised |-> ex, rows |-> rs, seq |-> sq, leaked |-> lk, insertTried |-> tried]
        stored(ex) ==
            [raised |-> ex,
             rows |-> InsertRow(rs, sq, date_str, cat, amt.f.v, nts),
             seq |-> sq + 1, leaked |-> 0, insertTried |-> TRUE]
    IN  IF ~amt.ok THEN same("ValueError: float", 1, FALSE)
        ELSE IF ~tbl \/ ~dbOk THEN same("OperationalError", 1, TRUE)
        ELSE IF amt.f.nan THEN same("IntegrityError", 1, TRUE)
        ELSE IF ~strptime_ok(date_str) THEN stored("ValueError: date")
        ELSE stored("")

\* add_expense(date_str, category, amount, notes).  category, notes are
\* texts (notes may be None), amount is a str or a float.
add_expense(rs, sq, tbl, date_str, category, amount, notes, dbOk) ==
    LET amt == PyFloat(amount)
        cat == Strip(category)
        nts == IF Truthy(notes) THEN Strip(notes) ELSE None
        same(ex, lk, tried) ==
            [raised |-> ex, rows |-> rs, seq |-> sq, leaked |-> lk, insertTried |-> tried]
    IN  IF ~strptime_ok(date_str) THEN same("ValueError: date", 0, FALSE)
        \* conn = get_conn(); the parameter tuple is built before execute
        ELSE IF ~amt.ok THEN same("ValueError: float", 1, FALSE)
        ELSE IF ~tbl \/ ~dbOk THEN same("OperationalError", 1, TRUE)
        \* a NaN is bound as NULL and amount is NOT NULL
        ELSE IF amt.f.nan THEN same("IntegrityError", 1, TRUE)
        ELSE [raised |-> "",
              rows |-> InsertRow(rs, sq, date_str, cat, amt.f.v, nts),
              seq |-> sq + 1, leaked |-> 0, insertTried |-> TRUE]

\* ORDER BY date DESC, id DESC: date is a TEXT column.
Before(r, q) ==
    \/ TextLess(q.date, r.date)
    \/ r.date = q.date /\ r.id > q.id

RECURSIVE OrderBy(_)
OrderBy(S) ==
    IF S = {} THEN <<>>
    ELSE LET first == CHOOSE r \in S : \A q \in S \ {r} : Before(r, q)
         IN  <<first>> \o OrderBy(S \ {first})

RowSet(rs) == {rs[i] : i \in 1..Len(rs)}

\* fetch_all(): the whole table in display order.
fetch_all(rs, tbl, dbOk) ==
    IF ~tbl \/ ~dbOk
    THEN [raised |-> "DatabaseError", df |-> <<>>, leaked |-> 1]
    ELSE [raised |-> "", df |-> OrderBy(RowSet(rs)), leaked |-> 0]

\* A filter: start, end, category are texts or None; min, max are <<>> for
\* None or <<f>> for a float f.
Filter(s, e, c, mn, mx) ==
    [start_date |-> s, end_date |-> e, category |-> c, min_amt |-> mn, max_amt |-> mx]

NoFilter == Filter(None, None, None, <<>>, <<>>)

\* The WHERE clause search_expenses assembles.  A NaN parameter is bound as
\* NULL and a comparison with NULL selects nothing.
Where(r, f) ==
    /\ Truthy(f.start_date) => TextLeq(f.start_date, r.date)
    /\ Truthy(f.end_date) => TextLeq(r.date, f.end_date)
    /\ Truthy(f.category) => Lower(r.category) = Lower(f.category)
    /\ f.min_amt # <<>> => (~f.min_amt[1].nan /\ r.amount >= f.min_amt[1].v)
    /\ f.max_amt # <<>> => (~f.max_amt[1].nan /\ r.amount <= f.max_amt[1].v)

search_expenses(rs, tbl, f, dbOk) ==
    IF ~tbl \/ ~dbOk
    THEN [raised |-> "DatabaseError", df |-> <<>>, leaked |-> 1]
    ELSE [raised |-> "", df |-> OrderBy({r \in RowSet(rs) : Where(r, f)}), leaked |-> 0]

(* ---------------------------------------------------------------------- *)
(* Analytics                                                              *)
(* ---------------------------------------------------------------------- *)

RECURSIVE SumAmounts(_)
SumAmounts(S) ==
    IF S = {} THEN 0
    ELSE LET r == CHOOSE x \in S : TRUE IN r.amount + SumAmounts(S \ {r})

\* df['amount'].sum()
total_spending(df) == SumAmounts(RowSet(df))

\* The arrangements of a set of keys in which a precedes b only if <<a, b>>
\* is in leq.
Orderings(keys, leq) ==
    {s \in [1..Cardinality(keys) -> keys] :
        /\ \A k \in keys : \E i \in DOMAIN s : s[i] = k
        /\ \A i, j \in DOMAIN s : i < j => <<s[i], s[j]>> \in leq}

\* df.groupby('category', dropna=False)['amount'].sum()
\*   .sort_values(ascending=False): every order the sort may leave equal
\* sums in.  An entry is <<category, sum>>.
spending_by_category(df) ==
    LET grp(c) == <<c, SumAmounts({r \in RowSet(df) : r.category = c})>>
        keys   == {grp(r.category) : r \in RowSet(df)}
        desc   == {p \in keys \X keys : p[1][2] >= p[2][2]}
    IN  Orderings(keys, desc)

DigitChar(n) == <<"0", "1", "2", "3", "4", "5", "6", "7", "8", "9">>[n + 1]

\* str(Period) of a month: "YYYY-MM".
MonthText(y, m) ==
    <<DigitChar((y \div 1000) % 10), DigitChar((y \div 100) % 10),
      DigitChar((y \div 10) % 10), DigitChar(y % 10), "-",
      DigitChar(m \div 10), DigitChar(m % 10)>>

\* The calendar month pandas reads from the date column.
MonthOf(r) == LET f == DateFields(r.date) IN <<f[1], f[2]>>

\* monthly_trend as it would be if a date that is not zero-padded became
\* NaT and groupby dropped its record.
monthly_trend_dropping_nat(df) ==
    LET kept   == {r \in RowSet(df) : Len(r.date) = 10}
        months == {MonthOf(r) : r \in kept}
        grp(k) == <<MonthText(k[1], k[2]), SumAmounts({r \in kept : MonthOf(r) = k})>>
        asc    == {p \in months \X months :
                      p[1][1] < p[2][1] \/ (p[1][1] = p[2][1] /\ p[1][2] <= p[2][2])}
        order  == CHOOSE s \in Orderings(months, asc) : TRUE
    IN  [i \in DOMAIN order |-> grp(order[i])]

\* monthly_trend(df): an entry is <<"YYYY-MM", sum>>, ascending by month.
monthly_trend(df) ==
    LET months == {MonthOf(r) : r \in RowSet(df)}
        grp(k) == <<MonthText(k[1], k[2]), SumAmounts({r \in RowSet(df) : MonthOf(r) = k})>>
        asc    == {p \in months \X months :
                      p[1][1] < p[2][1] \/ (p[1][1] = p[2][1] /\ p[1][2] <= p[2][2])}
        order  == CHOOSE s \in Orderings(months, asc) : TRUE
    IN  [i \in DOMAIN order |-> grp(order[i])]

RECURSIVE SumValues(_)
SumValues(series) ==
    IF series = <<>> THEN 0 ELSE series[1][2] + SumValues(Tail(series))

(* ---------------------------------------------------------------------- *)
(* Console UI                                                             *)
(* ---------------------------------------------------------------------- *)

\* The texts typed at the prompts of one add, None for a prompt not reached.
Args(d, c, a, n) == [date |-> d, category |-> c, amount |-> a, notes |-> n]

NoArgs == Args(None, None, Str(None), None)

\* prompt_add() with the four answers and today's date (for an empty date).
\* outcome is what the user is told.
prompt_add(rs, sq, tbl, dateIn, catIn, amtIn, notesIn, today, dbOk) ==
    LET date     == Strip(dateIn)
        dateUsed == IF date = <<>> THEN today ELSE date
        category == Strip(catIn)
        amount   == Strip(amtIn)
        amt      == ParseFloat(amount)
        notes    == Strip(notesIn)
        call     == add_expense(rs, sq, tbl, dateUsed, category, Flt(amt.f), notes, dbOk)
        stop(what, args) ==
            [outcome |-> what, raised |-> "", rows |-> rs, seq |-> sq,
             leaked |-> 0, insertTried |-> FALSE, args |-> args]
    IN  IF Lower(date) = <<"q">>
            THEN stop("cancelled", Args(dateIn, None, Str(None), None))
        ELSE IF Lower(category) = <<"q">> \/ category = <<>>
            THEN stop("cancelled or invalid category", Args(dateIn, catIn, Str(None), None))
        ELSE IF Lower(amount) = <<"q">>
            THEN stop("cancelled", Args(dateIn, catIn, Str(amtIn), None))
        ELSE IF ~amt.ok
            THEN stop("invalid amount", Args(dateIn, catIn, Str(amtIn), None))
        ELSE [outcome |-> IF call.raised = "" THEN "expense added" ELSE "error adding expense",
              raised |-> call.raised, rows |-> call.rows, seq |-> call.seq,
              leaked |-> call.leaked, insertTried |-> call.insertTried,
              args |-> Args(dateIn, catIn, Str(amtIn), notesIn)]

\* "x.strip() or None" of prompt_search.
OrNone(t) == IF Strip(t) = <<>> THEN None ELSE Strip(t)

\* prompt_search(): the filter built from the five answers; ok = FALSE is
\* "Invalid amount filters."
prompt_filter(sIn, eIn, cIn, mnIn, mxIn) ==
    LET mina == OrNone(mnIn)
        maxa == OrNone(mxIn)
        mn   == IF Truthy(mina) THEN ParseFloat(mina) ELSE [ok |-> TRUE, f |-> NaN]
        mx   == IF Truthy(maxa) THEN ParseFloat(maxa) ELSE [ok |-> TRUE, f |-> NaN]
    IN  [ok |-> mn.ok /\ mx.ok,
         filter |-> Filter(OrNone(sIn), OrNone(eIn), OrNone(cIn),
                           IF Truthy(mina) THEN <<mn.f>> ELSE <<>>,
                           IF Truthy(maxa) THEN <<mx.f>> ELSE <<>>)]

\* What the handler of the last menu command (or call) did.  The menu loop
\* keeps the typed answers of an add only when the expense was added.
Last(op, choice, args, outcome, raised, leaked, tried, df, total, by_cat, by_month) ==
    [op |-> op, choice |-> choice, args |-> args, outcome |-> outcome,
     raised |-> raised, leaked |-> leaked, insertTried |-> tried, df |-> df,
     total |-> total, by_cat |-> by_cat, by_month |-> by_month]

\* A command that only printed.
Told(op, choice, outcome) ==
    Last(op, choice, NoArgs, outcome, "", 0, FALSE, <<>>, 0, <<>>, <<>>)

\* A command a store or file error ended: nothing in main_loop catches it.
Uncaught(op, choice, raised, leaked) ==
    Last(op, choice, NoArgs, "uncaught", raised, leaked, FALSE, <<>>, 0, <<>>, <<>>)

\* A command that showed or exported df.
Shown(op, choice, outcome, df) ==
    Last(op, choice, NoArgs, outcome, "", 0, FALSE, df, 0, <<>>, <<>>)

(* ---------------------------------------------------------------------- *)
(* Inputs                                                                 *)
(* ---------------------------------------------------------------------- *)

MaxRows == 2

Jan15 == <<"2", "0", "2", "4", "-", "0", "1", "-", "1", "5">>
Feb01 == <<"2", "0", "2", "4", "-", "0", "2", "-", "0", "1">>
Jan5u == <<"2", "0", "2", "4", "-", "1", "-", "5">>
Feb30 == <<"2", "0", "2", "4", "-", "0", "2", "-", "3", "0">>

\* datetime.now().strftime("%Y-%m-%d") on the day of the run.
Today == {Feb01}

\* Answers typed at the prompts of the menu loop.
LoopDates == {<<>>, Jan5u, Feb30, <<"q">>}
LoopCategories == {<<"F">>, <<"f", " ">>, <<" ">>}
LoopAmounts == {<<"2", "0">>, <<"3", "0">>, <<"x">>, <<"n", "a", "n">>, <<"q">>}
LoopNotes == {<<>>}
LoopFileNames == {<<>>, <<"o", "u", "t">>}

SearchStarts == {<<>>, Feb01}
SearchEnds == {<<>>, Feb01}
SearchCategories == {<<>>, <<"F">>}
SearchMins == {<<>>, <<"3", "0">>, <<"x">>}
SearchMaxs == {<<>>, <<"2", "0">>}

Choices ==
    {<<"1">>, <<"2">>, <<" ", "3">>, <<"4">>, <<"5">>, <<"6">>, <<"7">>, <<"8">>, <<>>,
     <<"q">>, <<"Q">>, <<"q", "u", "i", "t">>, <<"E", "x", "i", "t">>}

QuitWords == {<<"q">>, <<"q", "u", "i", "t">>, <<"e", "x", "i", "t">>}

\* The typed choices that main_loop reads as the menu entry k.
Typed(k) == {ch \in Choices : Strip(ch) = k}

(* ---------------------------------------------------------------------- *)
(* The program: main_loop                                                 *)
(* ---------------------------------------------------------------------- *)

Init ==
    /\ rows = <<>>
    /\ seq = 0
    /\ tableExists = FALSE
    /\ loop = "off"
    /\ last = Told("none", <<>>, "")

\* python main.py: main_loop() runs init_db() and shows the menu.
Start ==
    /\ loop # "menu"
    /\ \E dbOk \in BOOLEAN :
         \E r \in {init_db(tableExists, dbOk)} :
             /\ tableExists' = r.table
             /\ loop' = IF r.raised = "" THEN "menu" ELSE "crashed"
             /\ last' = IF r.raised = "" THEN Told("init_db", <<>>, "menu")
                        ELSE Uncaught("init_db", <<>>, r.raised, r.leaked)
    /\ UNCHANGED <<rows, seq>>

\* choice '1'
PromptAdd ==
    /\ loop = "menu"
    /\ Len(rows) < MaxRows
    /\ \E ch \in Typed(<<"1">>), d \in LoopDates, c \in LoopCategories, a \in LoopAmounts,
          n \in LoopNotes, today \in Today, dbOk \in BOOLEAN :
         \E r \in {prompt_add(rows, seq, tableExists, d, c, a, n, today, dbOk)} :
                /\ rows' = r.rows
                /\ seq' = r.seq
                /\ last' = Last("prompt_add", ch,
                                IF r.outcome = "expense added" THEN r.args ELSE NoArgs,
                                r.outcome, r.raised, r.leaked, r.insertTried,
                                <<>>, 0, <<>>, <<>>)
    /\ UNCHANGED <<tableExists, loop>>

\* choice '2'
PromptViewAll ==
    /\ loop = "menu"
    /\ \E ch \in Typed(<<"2">>), dbOk \in BOOLEAN :
         \E r \in {fetch_all(rows, tableExists, dbOk)} :
                IF r.raised # ""
                THEN /\ loop' = "crashed"
                     /\ last' = Uncaught("prompt_view_all", ch, r.raised, r.leaked)
                ELSE /\ loop' = loop
                     /\ last' = Shown("prompt_view_all", ch,
                                      IF r.df = <<>> THEN "no records found" ELSE "shown", r.df)
    /\ UNCHANGED <<rows, seq, tableExists>>

\* choice '3'
PromptSearch ==
    /\ loop = "menu"
    /\ \E ch \in Typed(<<"3">>), s \in SearchStarts, e \in SearchEnds, c \in SearchCategories,
          mn \in SearchMins, mx \in SearchMaxs, dbOk \in BOOLEAN :
         \E pf \in {prompt_filter(s, e, c, mn, mx)} :
            IF ~pf.ok
            THEN /\ loop' = loop
                 /\ last' = Told("prompt_search", ch, "invalid amount filters")
            ELSE \E r \in {search_expenses(rows, tableExists, pf.filter, dbOk)} :
                   IF r.raised # ""
                   THEN /\ loop' = "crashed"
                        /\ last' = Uncaught("prompt_search", ch, r.raised, r.leaked)
                   ELSE /\ loop' = loop
                        /\ last' = Shown("prompt_search", ch,
                                         IF r.df = <<>> THEN "no records found" ELSE "shown",
                                         r.df)
    /\ UNCHANGED <<rows, seq, tableExists>>

\* choice '4'.  fsOk = FALSE: savefig cannot write the chart file.
PromptAnalytics ==
    /\ loop = "menu"
    /\ \E ch \in Typed(<<"4">>), dbOk \in BOOLEAN, fsOk \in BOOLEAN :
         \E r \in {fetch_all(rows, tableExists, dbOk)} :
                IF r.raised # ""
                THEN /\ loop' = "crashed"
                     /\ last' = Uncaught("prompt_analytics", ch, r.raised, r.leaked)
                ELSE IF r.df = <<>>
                THEN /\ loop' = loop
                     /\ last' = Told("prompt_analytics", ch, "no data available")
                ELSE IF ~fsOk
                THEN /\ loop' = "crashed"
                     /\ last' = Uncaught("prompt_analytics", ch, "OSError", 0)
                ELSE /\ loop' = loop
                     /\ \E by_cat \in spending_by_category(r.df) :
                          last' = Last("prompt_analytics", ch, NoArgs, "charts saved", "", 0,
                                       FALSE, r.df, total_spending(r.df), by_cat,
                                       monthly_trend(r.df))
    /\ UNCHANGED <<rows, seq, tableExists>>

\* choice '5'.  fsOk = FALSE: the export file cannot be written.
PromptExport ==
    /\ loop = "menu"
    /\ \E ch \in Typed(<<"5">>), fname \in LoopFileNames, dbOk \in BOOLEAN, fsOk \in BOOLEAN :
         \E r \in {fetch_all(rows, tableExists, dbOk)} :
                IF r.raised # ""
                THEN /\ loop' = "crashed"
                     /\ last' = Uncaught("prompt_export", ch, r.raised, r.leaked)
                ELSE IF r.df = <<>>
                THEN /\ loop' = loop
                     /\ last' = Told("prompt_export", ch, "no data to export")
                ELSE IF ~fsOk
                THEN /\ loop' = "crashed"
                     /\ last' = Uncaught("prompt_export", ch, "OSError", 0)
                ELSE /\ loop' = loop
                     /\ last' = Shown("prompt_export", ch, "exported", r.df)
    /\ UNCHANGED <<rows, seq, tableExists>>

\* choice '6'
PrintHelp ==
    /\ loop = "menu"
    /\ \E ch \in Typed(<<"6">>) :
         /\ last' = Told("print_help", ch, "help")
    /\ UNCHANGED <<rows, seq, tableExists, loop>>

IsQuit(choice) == choice = <<"7">> \/ Lower(choice) \in QuitWords

\* choice '7' or a quit word
Quit ==
    /\ loop = "menu"
    /\ \E ch \in Choices :
         /\ IsQuit(Strip(ch))
         /\ last' = Told("quit", ch, "bye")
    /\ loop' = "exited"
    /\ UNCHANGED <<rows, seq, tableExists>>

\* any other choice
InvalidChoice ==
    /\ loop = "menu"
    /\ \E ch \in Choices :
         /\ Strip(ch) \notin {<<"1">>, <<"2">>, <<"3">>, <<"4">>, <<"5">>, <<"6">>}
         /\ ~IsQuit(Strip(ch))
         /\ last' = Told("invalid", ch, "invalid choice")
    /\ UNCHANGED <<rows, seq, tableExists, loop>>

Next ==
    \/ Start
    \/ PromptAdd
    \/ PromptViewAll
    \/ PromptSearch
    \/ PromptAnalytics
    \/ PromptExport
    \/ PrintHelp
    \/ Quit
    \/ InvalidChoice

Spec == Init /\ [][Next]_vars

(* ---------------------------------------------------------------------- *)
(* One add on a small ledger, then fetch_all: add_expense and prompt_add  *)
(* as functions of their inputs, on a database that works                 *)
(* ---------------------------------------------------------------------- *)

CallDates ==
    {Jan15, Feb01, Jan5u, Feb30, <<>>,
     <<"2", "0", "2", "4", "-", "1", "3", "-", "0", "1">>,
     <<"2", "0", "2", "3", "-", "0", "2", "-", "2", "9">>,
     <<"2", "0", "2", "4", "-", "0", "2", "-", "2", "9">>,
     <<"2", "0", "2", "4", "-", "0", "1", "-", " ", "5">>,
     <<"2", "4", "-", "0", "1", "-", "1", "5">>,
     <<"2", "0", "2", "4", "/", "0", "1", "/", "1", "5">>,
     <<"0", "0", "0", "0", "-", "0", "1", "-", "0", "1">>,
     <<"n", "o", "t", "-", "a", "-", "d", "a", "t", "e">>}
CallCategories ==
    {<<"F", "o", "o", "d">>, <<" ", "f", "o", "o", "d", " ">>, <<>>, <<" ", " ">>, <<"q">>}
CallAmountTexts ==
    {<<"2", "0">>, <<" ", "-", "5">>, <<"0", ".", "5">>, <<"x">>, <<>>, <<"n", "a", "n">>}
CallAmounts == {Str(t) : t \in CallAmountTexts} \cup {Flt(Num(3000))}
CallNotes == {None, <<>>, <<" ">>, <<" ", "n", " ">>}

\* Ledgers the program has stored before the call.
SampleLedgers == {<<>>, <<Row(1, Jan15, <<"F">>, 2000, None)>>}

InitAdd ==
    /\ rows \in SampleLedgers
    /\ seq = Len(rows)
    /\ tableExists = TRUE
    /\ loop = "off"
    /\ \E d \in CallDates, c \in CallCategories, a \in CallAmounts, n \in CallNotes :
         last = Last("call", <<>>, Args(d, c, a, n), "", "", 0, FALSE, <<>>, 0, <<>>, <<>>)

\* add_expense(date, category, amount, notes) called with the drawn inputs.
CallAddExpense ==
    /\ last.op = "call"
    /\ \E r \in {add_expense(rows, seq, tableExists, last.args.date, last.args.category,
                             last.args.amount, last.args.notes, TRUE)} :
         /\ rows' = r.rows
         /\ seq' = r.seq
         /\ last' = Last("add_expense", <<>>, last.args,
                         IF r.raised = "" THEN "returned" ELSE "raised",
                         r.raised, r.leaked, r.insertTried, <<>>, 0, <<>>, <<>>)
    /\ UNCHANGED <<tableExists, loop>>

\* prompt_add() with the drawn inputs typed at its prompts.
CallPromptAdd ==
    /\ last.op = "call"
    /\ last.args.amount.kind = "str"
    /\ last.args.notes # None
    /\ \E today \in Today :
       \E r \in {prompt_add(rows, seq, tableExists, last.args.date, last.args.category,
                            last.args.amount.s, last.args.notes, today, TRUE)} :
         /\ rows' = r.rows
         /\ seq' = r.seq
         /\ last' = Last("prompt_add", <<"1">>, r.args, r.outcome, r.raised, r.leaked,
                         r.insertTried, <<>>, 0, <<>>, <<>>)
    /\ UNCHANGED <<tableExists, loop>>

\* fetch_all() after an add that stored its record.
CallFetchAll ==
    /\ last.op \in {"add_expense", "prompt_add"}
    /\ last.raised = ""
    /\ last.insertTried
    /\ \E r \in {fetch_all(rows, tableExists, TRUE)} :
         last' = Last("fetch_all", <<>>, last.args, last.op, r.raised, r.leaked, FALSE,
                      r.df, 0, <<>>, <<>>)
    /\ UNCHANGED <<rows, seq, tableExists, loop>>

NextAdd ==
    \/ CallAddExpense
    \/ CallPromptAdd
    \/ CallFetchAll

SpecAdd == InitAdd /\ [][NextAdd]_vars

(* ---------------------------------------------------------------------- *)
(* Properties                                                             *)
(* ---------------------------------------------------------------------- *)

\* Calendar order of two <<year, month, day>>.
CalLeq(a, b) ==
    \/ a[1] < b[1]
    \/ a[1] = b[1] /\ a[2] < b[2]
    \/ a[1] = b[1] /\ a[2] = b[2] /\ a[3] <= b[3]

\* Strictly YYYY-MM-DD: ten characters, zero-padded, a real calendar day.
StrictDate(t) ==
    /\ Len(t) = 10
    /\ t[5] = "-" /\ t[8] = "-"
    /\ AllDigits(SubSeq(t, 1, 4)) /\ AllDigits(SubSeq(t, 6, 7)) /\ AllDigits(SubSeq(t, 9, 10))
    /\ LET y == IntVal(SubSeq(t, 1, 4))
           m == IntVal(SubSeq(t, 6, 7))
           d == IntVal(SubSeq(t, 9, 10))
       IN  y >= 1 /\ m \in 1..12 /\ d \in 1..DaysInMonth(y, m)

\* Filters whose options are absent or well-formed: strict dates, a
\* category, finite amounts.
ClaimFilters ==
    {Filter(s, e, c, mn, mx) :
        s \in {None, Jan15, Feb01}, e \in {None, Jan15, Feb01},
        c \in {None, <<"f">>, <<"F">>},
        mn \in {<<>>, <<Num(3000)>>}, mx \in {<<>>, <<Num(2000)>>, <<Num(3000)>>}}

\* The record satisfies every present constraint of the filter, dates read
\* as calendar dates.
Satisfies(r, f) ==
    /\ f.start_date # None => CalLeq(DateFields(f.start_date), DateFields(r.date))
    /\ f.end_date # None => CalLeq(DateFields(r.date), DateFields(f.end_date))
    /\ f.category # None => Lower(r.category) = Lower(f.category)
    /\ f.min_amt # <<>> => r.amount >= f.min_amt[1].v
    /\ f.max_amt # <<>> => r.amount <= f.max_amt[1].v

\* g has every constraint of f (and possibly more).
Extends(g, f) ==
    /\ f.start_date # None => g.start_date = f.start_date
    /\ f.end_date # None => g.end_date = f.end_date
    /\ f.category # None => g.category = f.category
    /\ f.min_amt # <<>> => g.min_amt = f.min_amt
    /\ f.max_amt # <<>> => g.max_amt = f.max_amt

Found(f) == search_expenses(rows, tableExists, f, TRUE).df

\* C1: for every reachable ledger and every filter, search_expenses returns
\* exactly the records of fetch_all that satisfy every present constraint,
\* in fetch_all's order; the empty filter returns fetch_all's sequence; and
\* a filter with one more constraint never returns a record the smaller
\* filter does not.
C1_SearchIsExactSubset ==
    tableExists =>
        LET all == fetch_all(rows, tableExists, TRUE).df
        IN  /\ Found(NoFilter) = all
            /\ \A f \in ClaimFilters :
                 LET keep(r) == Satisfies(r, f)
                 IN  Found(f) = SelectSeq(all, keep)
            /\ \A f, g \in ClaimFilters :
                 Extends(g, f) => RowSet(Found(g)) \subseteq RowSet(Found(f))

\* A sequence of records is in calendar date descending, id descending order.
CalendarSorted(df) ==
    \A i, j \in 1..Len(df) :
        i < j =>
            LET a == DateFields(df[i].date)
                b == DateFields(df[j].date)
            IN  /\ CalLeq(b, a)
                /\ a = b => df[i].id > df[j].id

ReadOps == {"prompt_view_all", "prompt_search", "prompt_analytics", "prompt_export"}

\* C2: the sequence fetch_all or search_expenses returned to the last
\* command is ordered by calendar date descending, then id descending.
C2_ResultInCalendarOrder ==
    last.op \in ReadOps => CalendarSorted(last.df)

AddOps == {"add_expense", "prompt_add"}

\* The add attempt ended in a validation failure of date, category or amount.
ValidationFailed(l) ==
    /\ l.op \in AddOps
    /\ \/ l.raised \in {"ValueError: date", "ValueError: float"}
       \/ l.outcome \in {"cancelled or invalid category", "invalid amount"}

\* C4: an add attempt that fails validation of the date, the category or
\* the amount executes no INSERT and leaves the stored records as they were.
C4_FailedValidationStoresNothing ==
    [][ValidationFailed(last') => (rows' = rows /\ seq' = seq /\ ~last'.insertTried)]_vars

\* add_expense refused an unparseable amount on a ledger that holds a record.
C4_Witness ==
    /\ last.op = "add_expense"
    /\ last.raised = "ValueError: float"
    /\ Len(rows) = 1

\* C5: add_expense rejects, with the date-format error, every date text
\* that is not strictly YYYY-MM-DD, and accepts the strict ones.
C5_OnlyStrictDatesAccepted ==
    last.op = "add_expense" =>
        (last.raised = "ValueError: date" <=> ~StrictDate(last.args.date))

\* The notes input is empty or whitespace-only (or not given).
BlankNotes(n) == n = None \/ Strip(n) = <<>>

\* A strict date, a category that is not blank, an amount that is a number.
WellFormed(a) ==
    /\ StrictDate(a.date)
    /\ Strip(a.category) # <<>>
    /\ PyFloat(a.amount).ok /\ ~PyFloat(a.amount).f.nan

\* C6: after add_expense of a well-formed input, fetch_all holds the record
\* with the new id, whose fields are the normalized inputs: the date, the
\* trimmed category, the parsed amount, and notes absent when blank.
C6_RoundTrip ==
    (last.op = "fetch_all" /\ last.outcome = "add_expense" /\ WellFormed(last.args)) =>
        \E i \in 1..Len(last.df) :
            /\ last.df[i].id = seq
            /\ last.df[i].date = last.args.date
            /\ last.df[i].category = Strip(last.args.category)
            /\ last.df[i].amount = PyFloat(last.args.amount).f.v
            /\ last.df[i].notes =
                 IF BlankNotes(last.args.notes) THEN None ELSE Strip(last.args.notes)

\* C7: an add whose category is empty after trimming is rejected and every
\* stored record has a non-empty category.
C7_CategoryNeverEmpty ==
    /\ \A i \in 1..Len(rows) : rows[i].category # <<>>
    /\ (last.op \in AddOps /\ last.args.category # None /\ Strip(last.args.category) = <<>>) =>
          (last.raised # "" \/ last.outcome = "cancelled or invalid category")

\* C8: the ledger is append-only with unique, strictly increasing ids: a
\* step keeps every stored record as it is, only a successful add appends,
\* it appends exactly one record whose id is above every earlier id, and
\* every other command (init_db re-run included) leaves the records alone.
C8_AppendOnly ==
    [][/\ Len(rows') >= Len(rows)
       /\ SubSeq(rows', 1, Len(rows)) = rows
       /\ Len(rows') <= Len(rows) + 1
       /\ (last'.op = "prompt_add" /\ last'.outcome = "expense added")
             <=> Len(rows') = Len(rows) + 1
       /\ \A i, j \in 1..Len(rows') : i < j => rows'[i].id < rows'[j].id
       /\ \A i \in 1..Len(rows') : rows'[i].id <= seq'
       /\ seq' >= seq]_vars

\* A second record was appended to a ledger.
C8_Witness ==
    /\ last.op = "prompt_add"
    /\ last.outcome = "expense added"
    /\ Len(rows) = 2
    /\ rows[2].id = 2

\* C9: every menu command other than quit returns to the menu, and the
\* loop ends only on a quit choice.
C9_LoopAlwaysReturnsToMenu ==
    [][loop = "menu" =>
         IF IsQuit(Strip(last'.choice)) THEN loop' = "exited" ELSE loop' = "menu"]_vars

\* C10: after any operation returns or raises, no connection it opened
\* remains open.
C10_NoConnectionLeftOpen == last.leaked = 0

====
